---------------------------- MODULE Spec2Model ----------------------------
(***************************************************************************)
(* A model of sqrt_2.py and verify_sqrt2.py: the Newton solver for sqrt(2) *)
(* over Python's decimal arithmetic, the fixed-point formatter, the        *)
(* verifier that recomputes a reference, the driver main(), and the        *)
(* stand-alone threshold verifier of verify_sqrt2.py.                      *)
(*                                                                         *)
(* Decimal coefficients do not fit machine integers (the solver works at   *)
(* decimal_places + 30 digits), so a coefficient is a sequence of decimal  *)
(* digits, most significant first, without leading zeros; <<>> is zero.    *)
(* A Decimal is a record [c |-> coefficient, e |-> exponent]; every value  *)
(* the program computes is non-negative (the one subtraction is taken      *)
(* under abs).                                                             *)
(***************************************************************************)
EXTENDS Integers, Sequences, FiniteSets, TLC

(***************************************************************************)
(* Bounds of the model.                                                    *)
(***************************************************************************)
\* digit counts typed at the prompt run from -MaxNeg to MaxN
MaxN == 6

MaxNeg == 2

\* iteration caps tried when the cap is not the default
MaxCap == 5

\* digit counts a client passes to the solver and the verifier run from
\* -MaxNeg to ClientMaxN, those it passes to the formatter from 0 to FmtMaxN
ClientMaxN == 1

FmtMaxN == 12

\* a client makes at most MaxCalls calls
MaxCalls == 3

\* verify_sqrt2.py is run on texts whose length and first wrong place lie
\* within V2Span of the lengths it tests for
V2Span == 12

(***************************************************************************)
(* Natural numbers as digit sequences.                                     *)
(***************************************************************************)
Max(a, b) == IF a >= b THEN a ELSE b

Min(a, b) == IF a <= b THEN a ELSE b

Zeros(k) == [i \in 1..k |-> 0]

(***************************************************************************)
(* The loops over the digits split their range in two, so that the depth   *)
(* of the recursion is the logarithm of the number of digits.  TLC         *)
(* evaluates an operator's arguments when they are first used: the one-arm *)
(* CASE on the first half's result makes it evaluate that half before it   *)
(* starts on the second.                                                   *)
(***************************************************************************)
\* the place of the first nonzero digit of s[lo..hi], hi + 1 when all are 0
RECURSIVE FirstNonZero(_, _, _)
FirstNonZero(s, lo, hi) ==
    IF lo > hi THEN hi + 1
    ELSE IF lo = hi THEN IF s[lo] # 0 THEN lo ELSE hi + 1
    ELSE LET mid == (lo + hi) \div 2
             l   == FirstNonZero(s, lo, mid)
         IN  IF l <= mid THEN l ELSE FirstNonZero(s, mid + 1, hi)

StripZeros(s) == SubSeq(s, FirstNonZero(s, 1, Len(s)), Len(s))

\* the i-th digit from the right (1 is the units digit), 0 beyond the length
DigitAt(s, i) == IF i <= Len(s) THEN s[Len(s) + 1 - i] ELSE 0

\* digits lo..hi (from the right) of a + b + carry, and the carry out
RECURSIVE AddRange(_, _, _, _, _)
AddRange(a, b, lo, hi, carry) ==
    IF lo = hi
    THEN LET s == DigitAt(a, lo) + DigitAt(b, lo) + carry
         IN  <<<<s % 10>>, s \div 10>>
    ELSE LET mid  == (lo + hi) \div 2
             low  == AddRange(a, b, lo, mid, carry)
             high == AddRange(a, b, mid + 1, hi, low[2])
         IN  CASE Len(low) = 2 -> <<high[1] \o low[1], high[2]>>

BigAdd(a, b) ==
    LET n == Max(Len(a), Len(b))
        r == AddRange(a, b, 1, n, 0)
    IN  IF n = 0 THEN <<>> ELSE StripZeros(<<r[2]>> \o r[1])

\* digits lo..hi (from the right) of a - b - borrow, and the borrow out
RECURSIVE SubRange(_, _, _, _, _)
SubRange(a, b, lo, hi, borrow) ==
    IF lo = hi
    THEN LET s == DigitAt(a, lo) - DigitAt(b, lo) - borrow
         IN  IF s < 0 THEN <<<<s + 10>>, 1>> ELSE <<<<s>>, 0>>
    ELSE LET mid  == (lo + hi) \div 2
             low  == SubRange(a, b, lo, mid, borrow)
             high == SubRange(a, b, mid + 1, hi, low[2])
         IN  CASE Len(low) = 2 -> <<high[1] \o low[1], high[2]>>

\* a - b for a >= b
BigSub(a, b) ==
    IF a = <<>> THEN <<>> ELSE StripZeros(SubRange(a, b, 1, Len(a), 0)[1])

\* the order of a[lo..hi] and b[lo..hi]: -1, 0 or 1
RECURSIVE CmpRange(_, _, _, _)
CmpRange(a, b, lo, hi) ==
    IF lo > hi THEN 0
    ELSE IF lo = hi
    THEN IF a[lo] < b[lo] THEN -1 ELSE IF a[lo] > b[lo] THEN 1 ELSE 0
    ELSE LET mid == (lo + hi) \div 2
             l   == CmpRange(a, b, lo, mid)
         IN  IF l # 0 THEN l ELSE CmpRange(a, b, mid + 1, hi)

\* -1, 0 or 1 as a < b, a = b, a > b (both without leading zeros)
BigCmp(a, b) ==
    IF Len(a) < Len(b) THEN -1
    ELSE IF Len(a) > Len(b) THEN 1
    ELSE CmpRange(a, b, 1, Len(a))

\* digits lo..hi (from the right) of a * d + carry, and the carry out
RECURSIVE MulSmallRange(_, _, _, _, _)
MulSmallRange(a, d, lo, hi, carry) ==
    IF lo = hi
    THEN LET s == DigitAt(a, lo) * d + carry
         IN  <<<<s % 10>>, s \div 10>>
    ELSE LET mid  == (lo + hi) \div 2
             low  == MulSmallRange(a, d, lo, mid, carry)
             high == MulSmallRange(a, d, mid + 1, hi, low[2])
         IN  CASE Len(low) = 2 -> <<high[1] \o low[1], high[2]>>

\* a * d for one digit d
MulSmall(a, d) ==
    LET r == MulSmallRange(a, d, 1, Len(a), 0)
    IN  IF a = <<>> THEN <<>> ELSE StripZeros(<<r[2]>> \o r[1])

\* a times the number b[lo..hi]
RECURSIVE MulRange(_, _, _, _)
MulRange(a, b, lo, hi) ==
    IF lo = hi THEN MulSmall(a, b[lo])
    ELSE LET mid  == (lo + hi) \div 2
             left == MulRange(a, b, lo, mid)
         IN  CASE Len(left) >= 0 ->
                  BigAdd(StripZeros(left \o Zeros(hi - mid)),
                         MulRange(a, b, mid + 1, hi))

BigMul(a, b) == IF b = <<>> THEN <<>> ELSE MulRange(a, b, 1, Len(b))

\* the largest digit d with m[d + 1] <= r, m the multiples 0*b .. 9*b
RECURSIVE QuotDigit(_, _, _)
QuotDigit(m, r, d) ==
    IF d < 9 /\ BigCmp(m[d + 2], r) <= 0 THEN QuotDigit(m, r, d + 1) ELSE d

\* long division over the digits a[lo..hi] with the remainder r so far: the
\* quotient digits and the remainder left
RECURSIVE DivRange(_, _, _, _, _)
DivRange(a, m, lo, hi, r) ==
    IF lo = hi
    THEN LET r1 == StripZeros(r \o <<a[lo]>>)
             d  == QuotDigit(m, r1, 0)
         IN  <<<<d>>, BigSub(r1, m[d + 1])>>
    ELSE LET mid   == (lo + hi) \div 2
             left  == DivRange(a, m, lo, mid, r)
             right == DivRange(a, m, mid + 1, hi, left[2])
         IN  CASE Len(left) = 2 -> <<left[1] \o right[1], right[2]>>

\* <<a div b, a mod b>> for b > 0
BigDivMod(a, b) ==
    LET m  == [d \in 1..10 |-> MulSmall(b, d - 1)]
        qr == DivRange(a, m, 1, Len(a), <<>>)
    IN  IF a = <<>> THEN <<<<>>, <<>>>> ELSE <<StripZeros(qr[1]), qr[2]>>

\* the largest digit d with (20 r + d) * d <= rem
RECURSIVE RootDigit(_, _, _)
RootDigit(r2, rem, d) ==
    IF d < 9 /\ BigCmp(MulSmall(StripZeros(r2 \o <<d + 1>>), d + 1), rem) <= 0
    THEN RootDigit(r2, rem, d + 1)
    ELSE d

\* the square root digit by digit over the digit pairs lo..hi of a, from the
\* root r and remainder rem so far: the root and the remainder left
RECURSIVE SqrtRange(_, _, _, _, _)
SqrtRange(a, lo, hi, r, rem) ==
    IF lo = hi
    THEN LET rem1 == StripZeros(rem \o <<a[2 * lo - 1], a[2 * lo]>>)
             r2   == MulSmall(r, 2)
             d    == RootDigit(r2, rem1, 0)
         IN  <<StripZeros(r \o <<d>>),
               BigSub(rem1, MulSmall(StripZeros(r2 \o <<d>>), d))>>
    ELSE LET mid  == (lo + hi) \div 2
             left == SqrtRange(a, lo, mid, r, rem)
         IN  CASE Len(left) = 2 -> SqrtRange(a, mid + 1, hi, left[1], left[2])

\* <<n, a - n * n>> for n the floor of the square root of a
BigISqrtRem(a) ==
    LET even == IF Len(a) % 2 = 1 THEN <<0>> \o a ELSE a
    IN  IF a = <<>> THEN <<<<>>, <<>>>>
        ELSE SqrtRange(even, 1, Len(even) \div 2, <<>>, <<>>)

(***************************************************************************)
(* Decimal values and the arithmetic context (decimal.getcontext()).       *)
(***************************************************************************)
ROUND_DOWN == "ROUND_DOWN"

ROUND_HALF_EVEN == "ROUND_HALF_EVEN"

InvalidOperation == "InvalidOperation"

ValueError == "ValueError"

RuntimeError == "RuntimeError"

Dec(c, e) == [c |-> c, e |-> e]

\* what a call that yields a Decimal ends with: status "ok" and the value,
\* the exception raised, or "none" before any call
Returned(v) == [status |-> "ok", val |-> v]

Raised(exc) == [status |-> exc, val |-> Dec(<<>>, 0)]

NoValue == [status |-> "none", val |-> Dec(<<>>, 0)]

Context(p, r) == [prec |-> p, rounding |-> r]

\* the context a fresh interpreter starts with
DefaultPrec == 28

DefaultContext == Context(DefaultPrec, ROUND_HALF_EVEN)

\* whether c, cut to its first k digits (k < Len(c)), is then incremented
RoundsUp(c, k, rounding) ==
    LET tail == SubSeq(c, k + 1, Len(c))
        half == <<5>> \o Zeros(Len(tail) - 1)
        cmp  == CmpRange(tail, half, 1, Len(tail))
    IN  IF rounding = ROUND_DOWN THEN FALSE
        ELSE cmp > 0 \/ (cmp = 0 /\ k > 0 /\ c[k] % 2 = 1)

\* Decimal._fix: round to the context's precision
Fix(v, ctx) ==
    IF Len(v.c) <= ctx.prec THEN v
    ELSE LET k    == ctx.prec
             drop == Len(v.c) - k
             head == SubSeq(v.c, 1, k)
             c1   == IF RoundsUp(v.c, k, ctx.rounding)
                     THEN BigAdd(head, <<1>>) ELSE head
         IN  IF Len(c1) > k
             THEN Dec(SubSeq(c1, 1, k), v.e + drop + 1)
             ELSE Dec(c1, v.e + drop)

\* an exact quotient keeps trailing zeros only down to the ideal exponent
RECURSIVE StripToIdeal(_, _, _)
StripToIdeal(c, e, ideal) ==
    IF e < ideal /\ c # <<>> /\ c[Len(c)] = 0
    THEN StripToIdeal(SubSeq(c, 1, Len(c) - 1), e + 1, ideal)
    ELSE Dec(c, e)

\* a / b under ctx, b nonzero
DecDiv(a, b, ctx) ==
    LET shift == Len(b.c) - Len(a.c) + ctx.prec + 1
        exp   == a.e - b.e - shift
        qr    == IF shift >= 0
                 THEN BigDivMod(StripZeros(a.c \o Zeros(shift)), b.c)
                 ELSE BigDivMod(a.c, b.c \o Zeros(-shift))
        coeff == qr[1]
    IN  IF qr[2] # <<>>
        THEN Fix(Dec(IF DigitAt(coeff, 1) % 5 = 0
                     THEN BigAdd(coeff, <<1>>) ELSE coeff, exp), ctx)
        ELSE Fix(StripToIdeal(coeff, exp, a.e - b.e), ctx)

Aligned(v, e) == StripZeros(v.c \o Zeros(v.e - e))

\* a + b under ctx
DecAdd(a, b, ctx) ==
    LET e == Min(a.e, b.e)
    IN  Fix(Dec(BigAdd(Aligned(a, e), Aligned(b, e)), e), ctx)

\* abs(a - b) under ctx
DecAbsDiff(a, b, ctx) ==
    LET e  == Min(a.e, b.e)
        ca == Aligned(a, e)
        cb == Aligned(b, e)
    IN  Fix(Dec(IF BigCmp(ca, cb) >= 0 THEN BigSub(ca, cb) ELSE BigSub(cb, ca), e),
            ctx)

\* a <= b
DecLe(a, b) ==
    LET e == Min(a.e, b.e) IN BigCmp(Aligned(a, e), Aligned(b, e)) <= 0

\* Decimal.sqrt of a positive value: the exact root when there is one, else
\* the root rounded half-even to the context's precision whatever the
\* context's rounding mode is
DecSqrt(v, ctx) ==
    LET prec  == ctx.prec + 1
        odd   == v.e % 2 = 1
        c0    == IF odd THEN v.c \o <<0>> ELSE v.c
        l     == IF odd THEN (Len(v.c) \div 2) + 1 ELSE (Len(v.c) + 1) \div 2
        shift == prec - l
        c     == c0 \o Zeros(2 * shift)
        e     == (v.e \div 2) - shift
        nr    == BigISqrtRem(c)
        n     == nr[1]
    IN  IF nr[2] = <<>>
        THEN Fix(Dec(SubSeq(n, 1, Len(n) - shift), e + shift),
                 Context(ctx.prec, ROUND_HALF_EVEN))
        ELSE Fix(Dec(IF DigitAt(n, 1) % 5 = 0 THEN BigAdd(n, <<1>>) ELSE n, e),
                 Context(ctx.prec, ROUND_HALF_EVEN))

\* Decimal._rescale: the value with exponent exp
Rescale(v, exp, rounding) ==
    IF v.c = <<>> THEN Dec(<<>>, exp)
    ELSE IF v.e >= exp THEN Dec(v.c \o Zeros(v.e - exp), exp)
    ELSE LET digits == Len(v.c) + v.e - exp
             c      == IF digits < 0 THEN <<1>> ELSE v.c
             k      == Max(digits, 0)
             head   == SubSeq(c, 1, k)
         IN  Dec(IF RoundsUp(c, k, rounding) THEN BigAdd(head, <<1>>) ELSE head,
                 exp)

\* value.quantize(1E<exp>, rounding=rounding) under ctx: InvalidOperation
\* when the result needs more digits than the context's precision
DecQuantize(v, exp, rounding, ctx) ==
    IF v.c = <<>> THEN Returned(Dec(<<>>, exp))
    ELSE IF v.e + Len(v.c) - exp > ctx.prec THEN Raised(InvalidOperation)
    ELSE LET ans == Rescale(v, exp, rounding)
         IN  IF Len(ans.c) > ctx.prec THEN Raised(InvalidOperation)
             ELSE Returned(ans)

(***************************************************************************)
(* Text: a string is a sequence of one-character strings.                  *)
(***************************************************************************)
Chars == <<"0", "1", "2", "3", "4", "5", "6", "7", "8", "9">>

Str(digits) == [i \in 1..Len(digits) |-> Chars[digits[i] + 1]]

Repeat(ch, k) == [i \in 1..k |-> ch]

\* format(value, "f")
FormatF(v) ==
    LET int      == IF v.c = <<>> THEN <<0>> ELSE v.c
        dotplace == v.e + Len(int)
    IN  IF v.c = <<>> /\ v.e > 0 THEN <<"0">>
        ELSE IF dotplace < 0
        THEN <<"0", ".">> \o Repeat("0", -dotplace) \o Str(int)
        ELSE IF dotplace >= Len(int)
        THEN Str(int) \o Repeat("0", dotplace - Len(int))
        ELSE (IF dotplace = 0 THEN <<"0">> ELSE Str(SubSeq(int, 1, dotplace)))
             \o <<".">> \o Str(SubSeq(int, dotplace + 1, Len(int)))

\* what a call that yields text ends with
Text(t) == [status |-> "ok", text |-> t]

NoText(exc) == [status |-> exc, text |-> <<>>]

Whitespace == {" ", "\n"}

RECURSIVE LStrip(_)
LStrip(t) == IF t # <<>> /\ Head(t) \in Whitespace THEN LStrip(Tail(t)) ELSE t

RECURSIVE RStrip(_)
RStrip(t) ==
    IF t # <<>> /\ t[Len(t)] \in Whitespace
    THEN RStrip(SubSeq(t, 1, Len(t) - 1)) ELSE t

\* str.strip()
Strip(t) == RStrip(LStrip(t))

\* the 1-based place of the first "." of t, 0 when there is none
RECURSIVE DotPlace(_, _)
DotPlace(t, i) ==
    IF i > Len(t) THEN 0 ELSE IF t[i] = "." THEN i ELSE DotPlace(t, i + 1)

\* the characters after the first "." of t
FracPart(t) ==
    IF DotPlace(t, 1) = 0 THEN <<>> ELSE SubSeq(t, DotPlace(t, 1) + 1, Len(t))

(***************************************************************************)
(* sqrt_2.py                                                               *)
(***************************************************************************)
GUARD == 30

THRESHOLD_MARGIN == 10

TRUNC_MARGIN == 10

VERIFY_MARGIN == 40

\* a cap below the number of passes the loop needs
MutDefaultMaxIterations == MaxCap - 1

DefaultMaxIterations == 10000

CONTEXT_RADIUS == 20

two == Dec(<<2>>, 0)

\* Decimal(10) ** (-(decimal_places + 10))
Threshold(n) == Dec(<<1>>, -(n + THRESHOLD_MARGIN))

\* one pass of the loop body: x = (x + two / x) / 2
NewtonStep(xv, c) == DecDiv(DecAdd(xv, DecDiv(two, xv, c), c), two, c)

\* abs(x - prev_x) <= threshold
Converged(xv, pv, n, c) == DecLe(DecAbsDiff(xv, pv, c), Threshold(n))

\* a cap test that is off by one
MutCapReached(count, cap) == count > cap

\* iter_count >= max_iterations
CapReached(count, cap) == count >= cap

\* a solver that rounds its result to nearest
MutQuantRounding == ROUND_HALF_EVEN

\* the rounding of x.quantize(quant, rounding=ROUND_DOWN) in the solver
SolverQuantRounding == ROUND_DOWN

\* the pad-or-cut of the text s of a quantized value to n fractional digits
FixedTail(s, n) ==
    LET dot == DotPlace(s, 1)
    IN  IF dot = 0 THEN s \o <<".">> \o Repeat("0", n)
        ELSE LET int_part  == SubSeq(s, 1, dot - 1)
                 frac_part == SubSeq(s, dot + 1, Len(s))
             IN  int_part \o <<".">> \o
                 (IF Len(frac_part) < n
                  THEN frac_part \o Repeat("0", n - Len(frac_part))
                  ELSE IF Len(frac_part) > n THEN SubSeq(frac_part, 1, n)
                  ELSE frac_part)

\* a formatter without the branch for decimal_places == 0
Mut_fixed_string(value, n, c) ==
    LET v == DecQuantize(value, -n, ROUND_DOWN, c)
    IN  IF v.status = "ok" THEN Text(FixedTail(FormatF(v.val), n))
        ELSE NoText(v.status)

decimal_to_fixed_string(value, n, c) ==
    IF n = 0
    THEN LET q == DecQuantize(value, 0, ROUND_DOWN, c)
         IN  IF q.status = "ok" THEN Text(FormatF(q.val)) ELSE NoText(q.status)
    ELSE LET v == DecQuantize(value, -n, ROUND_DOWN, c)
         IN  IF v.status = "ok" THEN Text(FixedTail(FormatF(v.val), n))
             ELSE NoText(v.status)

\* a scan that reports the place counted from 1
RECURSIVE MutMismatchPos(_, _, _)
MutMismatchPos(ours, ref, i) ==
    IF i >= Min(Len(ours), Len(ref)) THEN Min(Len(ours), Len(ref))
    ELSE IF ours[i + 1] # ref[i + 1] THEN i + 1
    ELSE MutMismatchPos(ours, ref, i + 1)

\* the 0-based index of the first place where ours and ref differ, the
\* shorter length when one is a prefix of the other
RECURSIVE MismatchPos(_, _, _)
MismatchPos(ours, ref, i) ==
    IF i >= Min(Len(ours), Len(ref)) THEN Min(Len(ours), Len(ref))
    ELSE IF ours[i + 1] # ref[i + 1] THEN i
    ELSE MismatchPos(ours, ref, i + 1)

\* t[start:end]
Slice(t, start, end) == SubSeq(t, start + 1, end)

\* a reference rounded to nearest instead of truncated
MutReferenceText(n) ==
    LET c               == Context(n + VERIFY_MARGIN, ROUND_DOWN)
        reference       == DecSqrt(two, c)
        reference_trunc == DecQuantize(reference, -n, ROUND_HALF_EVEN, c)
    IN  IF reference_trunc.status = "ok"
        THEN decimal_to_fixed_string(reference_trunc.val, n, c)
        ELSE NoText(reference_trunc.status)

\* the reference text of verify_written_result for n digits
ReferenceText(n) ==
    LET c               == Context(n + VERIFY_MARGIN, ROUND_DOWN)
        reference       == DecSqrt(two, c)
        reference_trunc == DecQuantize(reference, -n, ROUND_DOWN, c)
    IN  IF reference_trunc.status = "ok"
        THEN decimal_to_fixed_string(reference_trunc.val, n, c)
        ELSE NoText(reference_trunc.status)

NoReport ==
    [status |-> "none", ok |-> FALSE, ours |-> <<>>, ref |-> <<>>,
     mismatch_pos |-> -1, W |-> <<>>, R |-> <<>>]

\* lines 172-199: the comparison of the two stripped texts
CompareTexts(ours, ref) ==
    IF ours = ref
    THEN [NoReport EXCEPT !.status = "passed", !.ok = TRUE,
                          !.ours = ours, !.ref = ref]
    ELSE [status |-> "failed", ok |-> FALSE, ours |-> ours, ref |-> ref,
          mismatch_pos |-> MismatchPos(ours, ref, 0),
          W |-> Slice(ours, Max(0, MismatchPos(ours, ref, 0) - CONTEXT_RADIUS),
                      Min(Min(Len(ours), Len(ref)),
                          MismatchPos(ours, ref, 0) + CONTEXT_RADIUS)),
          R |-> Slice(ref, Max(0, MismatchPos(ours, ref, 0) - CONTEXT_RADIUS),
                      Min(Min(Len(ours), Len(ref)),
                          MismatchPos(ours, ref, 0) + CONTEXT_RADIUS))]

\* lines 155-170: the file's text against the reference text rt
VerifyAgainst(content, rt) ==
    IF rt.status # "ok" THEN [NoReport EXCEPT !.status = rt.status]
    ELSE CompareTexts(Strip(Strip(content)), Strip(rt.text))

\* verify_written_result on the file f = [exists, text]
verify_written_result(f, n) ==
    IF ~f.exists
    THEN [NoReport EXCEPT !.status = "missing"]
    ELSE VerifyAgainst(f.text, ReferenceText(n))

(***************************************************************************)
(* verify_sqrt2.py.  Its reference has 10050 significant digits, which is  *)
(* beyond what can be computed here, so the text it reads is described by  *)
(* what the function looks at: its length, and the 0-based index of the    *)
(* first character at which it differs from the reference text (-1 when it *)
(* differs nowhere over their common length).  The text is a plain         *)
(* fixed-point numeral, as the driver writes it, so that                   *)
(* str(Decimal(text)) is the text.                                         *)
(***************************************************************************)
V2_PREC == 10050

EXPECTED_LENGTH == 10002

LENGTH_SLACK == 10

MIN_MATCHING_DIGITS == 10000

\* len(str(reference_value)): "1", "." and V2_PREC - 1 digits
RefLen == V2_PREC + 1

\* lines 43-52: the characters that agree before the first that does not
MatchCount(f) ==
    IF f.wrong >= 0 /\ f.wrong < Min(f.len, RefLen)
    THEN f.wrong ELSE Min(f.len, RefLen)

\* lines 56-75
verify_sqrt2_accuracy(f) ==
    LET match_count      == MatchCount(f)
        actual_length    == f.len
        correct_length   == /\ actual_length >= EXPECTED_LENGTH - LENGTH_SLACK
                            /\ actual_length <= EXPECTED_LENGTH + LENGTH_SLACK
        sufficient_match == match_count >= MIN_MATCHING_DIGITS
    IN  [match_count |-> match_count, correct_length |-> correct_length,
         sufficient_match |-> sufficient_match,
         ret |-> correct_length /\ sufficient_match]

V2Files ==
    {[len |-> l, wrong |-> w] :
        l \in (MIN_MATCHING_DIGITS - V2Span)..(EXPECTED_LENGTH + V2Span),
        w \in {-1, 0, 2} \cup
              ((MIN_MATCHING_DIGITS - V2Span)..(EXPECTED_LENGTH + V2Span))}

VARIABLES
    pc,              \* where control is
    caller,          \* who called the solver: "main" or "client"
    ctx,             \* decimal.getcontext(): [prec, rounding]
    decimal_places,  \* the digit count in use
    max_iterations,  \* the solver's iteration cap
    x,               \* the solver's current iterate
    prev_x,          \* the solver's previous iterate
    iter_count,      \* the solver's iteration count
    result_decimal,  \* what the solver call ended with
    result_str,      \* what the formatter call ended with
    file,            \* sqrt_2_result.txt: [exists, text]
    report,          \* what verify_written_result printed and returned
    exit_code,       \* the process's exit status, -1 while it runs
    stdout,          \* the last line printed to the terminal
    ctx_at_call,     \* history: the context when the last call began
    tampered,        \* history: the file was altered after main wrote it
    fmt_prev,        \* history: the formatter call before the last
    fmt_last,        \* history: the last formatter call
    calls,           \* history: the number of calls a client has made
    v2_file,         \* the text verify_sqrt2.py reads: [len, wrong]
    v2_out           \* what verify_sqrt2_accuracy returned

vars == <<pc, caller, ctx, decimal_places, max_iterations, x, prev_x, iter_count,
          result_decimal, result_str, file, report, exit_code, stdout,
          ctx_at_call, tampered, fmt_prev, fmt_last, calls, v2_file, v2_out>>

solver_locals == <<x, prev_x, iter_count>>

fmt_history == <<fmt_prev, fmt_last, calls>>

v2_vars == <<v2_file, v2_out>>

NoFile == [exists |-> FALSE, text |-> <<>>]

NoCall == [called |-> FALSE, v |-> Dec(<<>>, 0), n |-> 0, out |-> NoText("none")]

FmtCall(v, n, out) == [called |-> TRUE, v |-> v, n |-> n, out |-> out]

NoV2Out ==
    [match_count |-> -1, correct_length |-> FALSE, sufficient_match |-> FALSE,
     ret |-> FALSE]

InitCommon ==
    /\ ctx = DefaultContext
    /\ decimal_places = 0
    /\ x = Dec(<<>>, 0)
    /\ prev_x = Dec(<<>>, 0)
    /\ iter_count = 0
    /\ result_decimal = NoValue
    /\ result_str = NoText("none")
    /\ file = NoFile
    /\ report = NoReport
    /\ exit_code = -1
    /\ stdout = ""
    /\ ctx_at_call = DefaultContext
    /\ tampered = FALSE
    /\ fmt_prev = NoCall
    /\ fmt_last = NoCall
    /\ calls = 0
    /\ v2_out = NoV2Out

\* python sqrt_2.py in a fresh interpreter, with no result file yet
Init ==
    /\ InitCommon
    /\ pc = "prompt"
    /\ caller = "main"
    /\ max_iterations = DefaultMaxIterations
    /\ v2_file = [len |-> 0, wrong |-> -1]

(***************************************************************************)
(* prompt_decimal_places and the call of the solver, main lines 203-211.   *)
(* What is typed is an integer within the bounds, something that is no     *)
(* integer, or nothing more (end of input).  An empty line stands for the  *)
(* default of 10000 digits, which is beyond the bounds like any other      *)
(* large count.                                                            *)
(***************************************************************************)
CONFIRM_ABOVE == 500000

PromptInputs ==
    {[kind |-> "eof", n |-> 0], [kind |-> "invalid", n |-> 0]}
        \cup {[kind |-> "int", n |-> k] : k \in -MaxNeg..MaxN}

MainPrompt ==
    /\ pc = "prompt"
    /\ \E input \in PromptInputs, confirm \in {"n"} :
         IF input.kind = "eof"
         THEN /\ stdout' = "Input cancelled. Exiting."
              /\ exit_code' = 1
              /\ pc' = "exited"
              /\ UNCHANGED <<decimal_places, ctx_at_call>>
         ELSE IF input.kind = "invalid"
         THEN /\ stdout' = "Invalid input. Please enter a valid integer."
              /\ UNCHANGED <<exit_code, pc, decimal_places, ctx_at_call>>
         ELSE IF input.n < 0
         THEN /\ stdout' = "Please enter a non-negative integer."
              /\ UNCHANGED <<exit_code, pc, decimal_places, ctx_at_call>>
         ELSE IF input.n > CONFIRM_ABOVE /\ confirm \notin {"y", "yes"}
         THEN /\ stdout' = "Cancelled. Please enter a smaller number."
              /\ UNCHANGED <<exit_code, pc, decimal_places, ctx_at_call>>
         ELSE /\ stdout' = "Computing sqrt(2)"
              /\ decimal_places' = input.n
              /\ ctx_at_call' = ctx
              /\ pc' = "solver"
              /\ UNCHANGED exit_code
    /\ UNCHANGED <<caller, ctx, max_iterations, solver_locals, result_decimal,
                   result_str, file, report, tampered, fmt_history, v2_vars>>

(***************************************************************************)
(* sqrt_2_high_precision, lines 65-110.                                    *)
(***************************************************************************)
AfterSolver == IF caller = "main" THEN "format" ELSE "idle"

\* lines 72-88: the quick path, or the context and the first iterate.
\* Setting prec below 1 raises ValueError.
SolverEnter ==
    /\ pc = "solver"
    /\ IF decimal_places = 0
       THEN /\ result_decimal' = Returned(DecSqrt(two, ctx))
            /\ pc' = AfterSolver
            /\ UNCHANGED <<ctx, solver_locals>>
       ELSE IF decimal_places + GUARD < 1
       THEN /\ result_decimal' = Raised(ValueError)
            /\ pc' = AfterSolver
            /\ UNCHANGED <<ctx, solver_locals>>
       ELSE /\ ctx' = Context(decimal_places + GUARD, ROUND_HALF_EVEN)
            /\ x' = Dec(<<1, 5>>, -1)
            /\ prev_x' = Dec(<<>>, 0)
            /\ iter_count' = 0
            /\ result_decimal' = NoValue
            /\ pc' = "newton"
    /\ UNCHANGED <<caller, decimal_places, max_iterations, result_str, file,
                   report, exit_code, stdout, ctx_at_call, tampered,
                   fmt_history, v2_vars>>

\* lines 90-103: one pass of the loop
SolverIterate ==
    /\ pc = "newton"
    /\ iter_count' = iter_count + 1
    /\ prev_x' = x
    /\ x' = NewtonStep(x, ctx)
    /\ IF Converged(x', prev_x', decimal_places, ctx)
       THEN /\ pc' = "truncate"
            /\ UNCHANGED result_decimal
       ELSE IF CapReached(iter_count', max_iterations)
       THEN /\ pc' = AfterSolver
            /\ result_decimal' = Raised(RuntimeError)
       ELSE /\ pc' = "newton"
            /\ UNCHANGED result_decimal
    /\ UNCHANGED <<caller, ctx, decimal_places, max_iterations, result_str, file,
                   report, exit_code, stdout, ctx_at_call, tampered,
                   fmt_history, v2_vars>>

\* lines 105-110: the result context and the truncation
SolverTruncate ==
    /\ pc = "truncate"
    /\ IF decimal_places + TRUNC_MARGIN < 1
       THEN /\ result_decimal' = Raised(ValueError)
            /\ UNCHANGED ctx
       ELSE /\ ctx' = Context(decimal_places + TRUNC_MARGIN, ROUND_DOWN)
            /\ result_decimal' =
                   DecQuantize(x, -decimal_places, SolverQuantRounding, ctx')
    /\ pc' = AfterSolver
    /\ UNCHANGED <<caller, decimal_places, max_iterations, solver_locals,
                   result_str, file, report, exit_code, stdout, ctx_at_call,
                   tampered, fmt_history, v2_vars>>

(***************************************************************************)
(* main, lines 209-241.                                                    *)
(***************************************************************************)
\* lines 212-221: an exception of the solver ends the run with status 1;
\* one of the formatter is not caught and does the same
MainFormat ==
    /\ pc = "format"
    /\ IF result_decimal.status # "ok"
       THEN /\ exit_code' = 1
            /\ pc' = "exited"
            /\ stdout' = "Error computing sqrt(2)"
            /\ UNCHANGED <<result_str, ctx_at_call, fmt_prev, fmt_last>>
       ELSE /\ result_str' =
                   decimal_to_fixed_string(result_decimal.val, decimal_places, ctx)
            /\ ctx_at_call' = ctx
            /\ fmt_prev' = fmt_last
            /\ fmt_last' = FmtCall(result_decimal.val, decimal_places, result_str')
            /\ IF result_str'.status # "ok"
               THEN exit_code' = 1 /\ pc' = "exited" /\ stdout' = "Traceback"
               ELSE pc' = "write" /\ stdout' = "Computation complete"
                    /\ UNCHANGED exit_code
    /\ UNCHANGED <<caller, ctx, decimal_places, max_iterations, solver_locals,
                   result_decimal, file, report, tampered, calls, v2_vars>>

\* lines 223-227
MainWrite ==
    /\ pc = "write"
    /\ file' = [exists |-> TRUE, text |-> result_str.text]
    /\ pc' = "verify"
    /\ UNCHANGED <<caller, ctx, decimal_places, max_iterations, solver_locals,
                   result_decimal, result_str, report, exit_code, stdout,
                   ctx_at_call, tampered, fmt_history, v2_vars>>

\* the context verify_written_result leaves behind (lines 159-161)
VerifierContext(f, n, c) ==
    IF f.exists THEN Context(n + VERIFY_MARGIN, ROUND_DOWN) ELSE c

\* lines 229-241
MainVerify ==
    /\ pc = "verify"
    /\ ctx_at_call' = ctx
    /\ report' = verify_written_result(file, decimal_places)
    /\ ctx' = VerifierContext(file, decimal_places, ctx)
    /\ exit_code' = IF report'.ok THEN 0 ELSE 2
    /\ stdout' = IF report'.ok THEN "All good."
                 ELSE "There was a mismatch. See details above."
    /\ pc' = "exited"
    /\ UNCHANGED <<caller, decimal_places, max_iterations, solver_locals,
                   result_decimal, result_str, file, tampered, fmt_history,
                   v2_vars>>

(***************************************************************************)
(* The result file is the one thing another process can reach: between the *)
(* write and the verifier's read it may be altered once.                   *)
(***************************************************************************)
TamperChars == {"0", "7", " "}

Tamper ==
    /\ pc = "verify"
    /\ ~tampered
    /\ \E kind \in {"replace", "cut", "append", "remove"},
          i \in 1..(MaxN + 2), ch \in TamperChars :
         /\ kind = "replace" => i <= Len(file.text)
         /\ kind # "replace" => i = 1 /\ ch = "0"
         /\ kind = "cut" => file.text # <<>>
         /\ file' = CASE kind = "replace" ->
                           [file EXCEPT !.text = [@ EXCEPT ![i] = ch]]
                      [] kind = "cut" ->
                           [file EXCEPT !.text = SubSeq(@, 1, Len(@) - 1)]
                      [] kind = "append" ->
                           [file EXCEPT !.text = @ \o <<ch>>]
                      [] OTHER -> NoFile
         /\ file' # file
    /\ tampered' = TRUE
    /\ UNCHANGED <<pc, caller, ctx, decimal_places, max_iterations, solver_locals,
                   result_decimal, result_str, report, exit_code, stdout,
                   ctx_at_call, fmt_history, v2_vars>>

Next ==
    \/ MainPrompt
    \/ SolverEnter
    \/ SolverIterate
    \/ SolverTruncate
    \/ MainFormat
    \/ MainWrite
    \/ MainVerify
    \/ Tamper

Spec == Init /\ [][Next]_vars

\* a step of SolverIterate, told by what it does to the control state
LoopPass ==
    /\ pc = "newton"
    /\ iter_count' = iter_count + 1
    /\ pc' \in {"newton", "truncate", "format", "idle"}

\* the interpreter goes on running the loop of the solver for as long as
\* the loop has not left by itself
FairSpec == Spec /\ WF_<<pc, iter_count>>(LoopPass)

(***************************************************************************)
(* The cap is the solver's second parameter.  The driver passes none, so   *)
(* its handler for a solver that fails (lines 212-214) runs only with a    *)
(* lower cap in place of the default; here the cap is any of 1..MaxCap.    *)
(***************************************************************************)
InitCap ==
    /\ InitCommon
    /\ pc = "prompt"
    /\ caller = "main"
    /\ max_iterations \in 1..MaxCap
    /\ v2_file = [len |-> 0, wrong |-> -1]

SpecCap == InitCap /\ [][Next]_vars

(***************************************************************************)
(* A client of the module: it calls the solver, the formatter, the writer  *)
(* and the verifier in any order, in one interpreter.                      *)
(***************************************************************************)
InitClient ==
    /\ InitCommon
    /\ pc = "idle"
    /\ caller = "client"
    /\ max_iterations = DefaultMaxIterations
    /\ v2_file = [len |-> 0, wrong |-> -1]

ClientCallsSolver ==
    /\ pc = "idle"
    /\ calls < MaxCalls
    /\ calls' = calls + 1
    /\ \E n \in -MaxNeg..ClientMaxN : decimal_places' = n
    /\ ctx_at_call' = ctx
    /\ pc' = "solver"
    /\ UNCHANGED <<caller, ctx, max_iterations, solver_locals, result_decimal,
                   result_str, file, report, exit_code, stdout, tampered,
                   fmt_prev, fmt_last, v2_vars>>

\* the values a client formats
FormatValues == {Dec(<<1, 5>>, -1)}

ClientCallsFormatter ==
    /\ pc = "idle"
    /\ calls < MaxCalls
    /\ calls' = calls + 1
    /\ \E v \in FormatValues, n \in 0..FmtMaxN :
         /\ result_str' = decimal_to_fixed_string(v, n, ctx)
         /\ fmt_last' = FmtCall(v, n, result_str')
    /\ fmt_prev' = fmt_last
    /\ ctx_at_call' = ctx
    /\ UNCHANGED <<pc, caller, ctx, decimal_places, max_iterations, solver_locals,
                   result_decimal, file, report, exit_code, stdout, tampered,
                   v2_vars>>

\* write_result_to_file, lines 140-142
ClientCallsWriter ==
    /\ pc = "idle"
    /\ calls < MaxCalls
    /\ calls' = calls + 1
    /\ result_str.status = "ok"
    /\ file' = [exists |-> TRUE, text |-> result_str.text]
    /\ UNCHANGED <<pc, caller, ctx, decimal_places, max_iterations, solver_locals,
                   result_decimal, result_str, report, exit_code, stdout,
                   ctx_at_call, tampered, fmt_prev, fmt_last, v2_vars>>

ClientCallsVerifier ==
    /\ pc = "idle"
    /\ calls < MaxCalls
    /\ calls' = calls + 1
    /\ \E n \in 0..ClientMaxN :
         /\ report' = verify_written_result(file, n)
         /\ ctx' = VerifierContext(file, n, ctx)
    /\ ctx_at_call' = ctx
    /\ UNCHANGED <<pc, caller, decimal_places, max_iterations, solver_locals,
                   result_decimal, result_str, file, exit_code, stdout, tampered,
                   fmt_prev, fmt_last, v2_vars>>

NextClient ==
    \/ ClientCallsSolver
    \/ SolverEnter
    \/ SolverIterate
    \/ SolverTruncate
    \/ ClientCallsFormatter
    \/ ClientCallsWriter
    \/ ClientCallsVerifier

SpecClient == InitClient /\ [][NextClient]_vars

(***************************************************************************)
(* python verify_sqrt2.py on a result file.                                *)
(***************************************************************************)
InitV2 ==
    /\ InitCommon
    /\ pc = "v2"
    /\ caller = "main"
    /\ max_iterations = DefaultMaxIterations
    /\ v2_file \in V2Files

\* verify_sqrt2_accuracy and the verdict main prints, lines 78-88
V2Verify ==
    /\ pc = "v2"
    /\ v2_out' = verify_sqrt2_accuracy(v2_file)
    /\ stdout' = IF v2_out'.ret THEN "VERIFICATION PASSED" ELSE "VERIFICATION FAILED"
    /\ pc' = "v2_done"
    /\ UNCHANGED <<caller, ctx, decimal_places, max_iterations, solver_locals,
                   result_decimal, result_str, file, report, exit_code,
                   ctx_at_call, tampered, fmt_history, v2_file>>

SpecV2 == InitV2 /\ [][V2Verify]_vars
(***************************************************************************)
(* Properties.                                                             *)
(***************************************************************************)
DigitOf(ch) == CHOOSE d \in 0..9 : Chars[d + 1] = ch

\* the digits of a numeral, its "." left out
NumeralDigits(t) ==
    LET places == {i \in 1..Len(t) : t[i] # "."}
        Nth(k) == CHOOSE i \in places : Cardinality({j \in places : j < i}) = k - 1
    IN  [k \in 1..Cardinality(places) |-> DigitOf(t[Nth(k)])]

\* t is a digit, then when n > 0 a "." and n digits
IsFixedNumeral(t, n) ==
    /\ Len(t) = IF n = 0 THEN 1 ELSE n + 2
    /\ \A i \in 1..Len(t) :
         IF i = 2 THEN t[i] = "." ELSE \E d \in 0..9 : t[i] = Chars[d + 1]

\* d = floor(sqrt(2) * 10^n):  d^2 <= 2 * 10^(2n) < (d + 1)^2
IsFloorSqrt2(d, n) ==
    LET scaled == <<2>> \o Zeros(2 * n)
        dd     == StripZeros(d)
        next   == BigAdd(dd, <<1>>)
    IN  /\ BigCmp(BigMul(dd, dd), scaled) <= 0
        /\ BigCmp(BigMul(next, next), scaled) > 0

\* C1: whenever the formatter has returned the text of the solver's result
\* for n digits, that text is the numeral of floor(sqrt(2) * 10^n) / 10^n,
\* never rounded up: "1" for n = 0, "1.4" for n = 1, "1.41421" for n = 5.
C1_TruncatedSqrt2 ==
    result_str.status = "ok" =>
        /\ IsFixedNumeral(result_str.text, decimal_places)
        /\ IsFloorSqrt2(NumeralDigits(result_str.text), decimal_places)
        /\ decimal_places = 0 => result_str.text = <<"1">>
        /\ decimal_places = 1 => result_str.text = <<"1", ".", "4">>
        /\ decimal_places = 5
             => result_str.text = <<"1", ".", "4", "1", "4", "2", "1">>

C1_Witness ==
    /\ decimal_places = 5
    /\ result_str.status = "ok"
    /\ result_str.text = <<"1", ".", "4", "1", "4", "2", "1">>

\* C2: the text the formatter returns for n > 0 has one "." and exactly n
\* characters after it, and the text for n = 0 has no "." and so no tail.
C2_FractionLength ==
    result_str.status = "ok" =>
        IF decimal_places = 0
        THEN DotPlace(result_str.text, 1) = 0
        ELSE /\ DotPlace(result_str.text, 1) > 0
             /\ Len(FracPart(result_str.text)) = decimal_places
             /\ DotPlace(FracPart(result_str.text), 1) = 0

C2_Witness ==
    /\ decimal_places = 0
    /\ result_str.status = "ok"
    /\ DotPlace(result_str.text, 1) = 0
    /\ pc = "write"

\* C3: when the driver has solved, formatted, written and verified with the
\* same n and nothing else touched the file, the verifier reported success:
\* the text written equals the reference text character for character, and
\* the run ends with status 0.
C3_PipelineVerifies ==
    (pc = "exited" /\ report.status # "none" /\ ~tampered) =>
        /\ report.status = "passed"
        /\ report.ok
        /\ report.ref = result_str.text
        /\ report.ours = file.text
        /\ exit_code = 0

C3_Witness ==
    /\ pc = "exited"
    /\ ~tampered
    /\ decimal_places = MaxN
    /\ report.status = "passed"
    /\ exit_code = 0

\* pos is the index, counted from 0, of the first place where a and b
\* differ, or the shorter length when one is a prefix of the other
IsFirstDifference(pos, a, b) ==
    /\ pos >= 0
    /\ pos <= Min(Len(a), Len(b))
    /\ \A i \in 1..pos : a[i] = b[i]
    /\ pos < Min(Len(a), Len(b)) => a[pos + 1] # b[pos + 1]

\* what was read is what was written but for the one character at
\* fractional position p, counted from 0
ReplacedAt(read, written, p) ==
    /\ Len(read) = Len(written)
    /\ p + 3 <= Len(written)
    /\ \A i \in 1..Len(written) : (read[i] # written[i]) <=> (i = p + 3)

C5_NegativeRejected ==
    decimal_places < 0 =>
        /\ pc \notin {"newton", "truncate"}
        /\ pc = "solver" => ctx = ctx_at_call
        /\ result_decimal.status # "ok"

\* the convergence test on the solver's last two iterates
LastStepConverged ==
    Converged(x, prev_x, decimal_places,
              Context(decimal_places + GUARD, ROUND_HALF_EVEN))

\* C6: for n > 0 the solver returns a value only if a step numbered at most
\* max_iterations met the convergence test; once max_iterations steps have
\* gone by without it the call has raised the non-convergence error and
\* returned nothing, and the driver stops with status 1, formats nothing,
\* writes no file and does not call the solver again.
C6_NonConvergence ==
    decimal_places > 0 =>
        /\ result_decimal.status = "ok"
             => iter_count <= max_iterations /\ LastStepConverged
        /\ pc = "truncate"
             => iter_count <= max_iterations /\ LastStepConverged
        /\ pc = "newton" => iter_count < max_iterations
        /\ result_decimal.status = RuntimeError =>
             /\ iter_count = max_iterations
             /\ ~LastStepConverged
             /\ pc \in {"format", "exited"}
             /\ pc = "exited" => exit_code = 1
             /\ result_str.status = "none"
             /\ file = NoFile
             /\ report = NoReport

C6_Witness ==
    /\ decimal_places > 0
    /\ result_decimal.status = RuntimeError
    /\ pc = "exited"
    /\ exit_code = 1
    /\ file = NoFile

\* C7: when a call of the solver, the formatter or the verifier is over, the
\* decimal context is what it was when the call began.
C7_ContextRestored ==
    pc \in {"format", "write", "verify", "exited"} => ctx = ctx_at_call

\* C8: two calls of the formatter with the same value and the same n both
\* return a text, and the same text, whatever was called before the first or
\* between the two.
C8_FormatterDeterministic ==
    /\ fmt_last.called => fmt_last.out.status = "ok"
    /\ (fmt_prev.called /\ fmt_prev.v = fmt_last.v /\ fmt_prev.n = fmt_last.n)
         => fmt_prev.out = fmt_last.out

\* C9: for n >= 1 and the default cap, the Newton loop meets its convergence
\* test and leaves before the cap: the non-convergence error is never
\* raised, and a loop that has begun reaches the truncation.
C9_NewtonConverges ==
    /\ [](decimal_places >= 1 =>
            /\ result_decimal.status # RuntimeError
            /\ pc \in {"newton", "truncate"} => iter_count < max_iterations)
    /\ ((pc = "newton") ~> (pc = "truncate"))

C9_Witness ==
    /\ decimal_places = MaxN
    /\ pc = "truncate"
    /\ iter_count > 1
    /\ LastStepConverged

\* the text has the first MIN_MATCHING_DIGITS fractional digits, and none
\* of them is wrong: they are the characters at indices 2 to
\* MIN_MATCHING_DIGITS + 1
FirstPlacesMatch(f) ==
    /\ f.len >= MIN_MATCHING_DIGITS + 2
    /\ f.wrong < 0 \/ f.wrong >= MIN_MATCHING_DIGITS + 2

\* C10: verify_sqrt2_accuracy returns True only for a text that agrees with
\* the reference in its first 10000 fractional digits.
C10_TenThousandPlaces ==
    (pc = "v2_done" /\ v2_out.ret) => FirstPlacesMatch(v2_file)
=============================================================================
